---- MODULE Spec2Model ----
(***************************************************************************)
(* Model of the attendance service: the credential store of auth.py and    *)
(* the daily-attendance pipeline of app.py (get_data and the two LMS       *)
(* fetchers it calls).  One request is followed from the caller-key gate   *)
(* through the upstream calls to its HTTP response; every upstream answer  *)
(* is chosen by the environment.                                           *)
(***************************************************************************)
EXTENDS Integers, Sequences, FiniteSets, TLC

VARIABLES
    api_keys,        \* rows of table api_keys, in insertion order
    pc,              \* position of the request handler
    req,             \* the inbound request: header key and query parameters
    filter_datetime, \* get_data: the parsed attendanceDate
    user_id,         \* fetch_instructor_led_training: user_data.get('id')
    course_id,       \* fetch_instructor_led_training: courses[0].get('id')
    training_data,   \* get_data: the in-scope units
    idx,             \* get_data: position of the loop over training_data
    sessions_data,   \* get_data: the records accumulated so far
    calls,           \* the upstream calls issued so far, with their answers
    response,        \* the HTTP response of the request, once sent
    gen,             \* generate_api_key: the call each worker is in
    lock,            \* the connection holding the write lock of the database
    issued,          \* history: the (customer, key) pairs returned by calls
    trace,           \* history: the upstream answers of the current request
    first            \* history: one earlier request, answers, and response

(* The variables of the request handler, of the concurrent key generation   *)
(* and the history variables.                                               *)
handler == <<pc, req, filter_datetime, user_id, course_id,
             training_data, idx, sessions_data, calls, response>>
store == <<gen, lock, issued>>
history == <<trace, first>>

vars == <<api_keys, pc, req, filter_datetime, user_id, course_id,
          training_data, idx, sessions_data, calls, response,
          gen, lock, issued, trace, first>>

----------------------------------------------------------------------------
(* Bounds of the model                                                      *)

MaxUnits == 2
MaxSessions == 2

(* Sequences over S of length at most n. *)
SeqUpTo(S, n) == UNION {[1..k -> S] : k \in 0..n}

----------------------------------------------------------------------------
(* Python values                                                            *)

None == "<None>"

(* Python truthiness of a string-or-None value. *)
Falsy(v) == v \in {None, ""}

(* A JSON value that may be a number, a string or missing:                  *)
(*   k = "num"    the number v                                              *)
(*   k = "numstr" the string holding the decimal numeral of v               *)
(*   k = "text"   a string that is no numeral                               *)
(*   k = "null"   JSON null                                                 *)
(*   k = "absent" the key is not in the object                              *)
Num(n) == [k |-> "num", v |-> n]
NumStr(n) == [k |-> "numstr", v |-> n]
Text == [k |-> "text", v |-> 0]
Null == [k |-> "null", v |-> 0]
Absent == [k |-> "absent", v |-> 0]

(* dict.get(key, default) on such a value. *)
Get(val, default) == IF val.k = "absent" THEN default ELSE val

(* float(x): numbers and numerals convert, anything else raises. *)
FloatOk(val) == val.k \in {"num", "numstr"}

(* int(x): as float here (the model holds whole numbers only). *)
IntOk(val) == val.k \in {"num", "numstr"}

----------------------------------------------------------------------------
(* Dates.  A date string is its layout and the numbers written in it; a     *)
(* datetime is the record of its fields with layout "datetime".             *)

FmtUpstream == "%d/%m/%Y, %H:%M:%S"
FmtCanonical == "%d-%m-%Y %H:%M:%S"
FmtFilter == "%Y-%m-%d"
FmtIso == "%Y-%m-%dT%H:%M:%S"

DateStr(fmt, y, mo, d, h, mi, s) ==
    [fmt |-> fmt, y |-> y, mo |-> mo, d |-> d, h |-> h, mi |-> mi, s |-> s]

NoDate == DateStr("none", 0, 0, 0, 0, 0, 0)
ParseError == DateStr("error", 0, 0, 0, 0, 0, 0)

IsLeap(y) == (y % 4 = 0 /\ y % 100 # 0) \/ y % 400 = 0

DaysInMonth(y, mo) ==
    IF mo = 2 THEN (IF IsLeap(y) THEN 29 ELSE 28)
    ELSE IF mo \in {4, 6, 9, 11} THEN 30 ELSE 31

ValidFields(x) ==
    /\ x.mo \in 1..12
    /\ x.d >= 1 /\ x.d <= DaysInMonth(x.y, x.mo)
    /\ x.h \in 0..23 /\ x.mi \in 0..59 /\ x.s \in 0..59

(* datetime.strptime(text, fmt): the datetime, or ParseError for the        *)
(* ValueError raised when the layout differs or a field is out of range     *)
(* (TypeError for None is told apart by the callers).                       *)
strptime(text, fmt) ==
    IF text.fmt = fmt /\ ValidFields(text)
    THEN [text EXCEPT !.fmt = "datetime"]
    ELSE ParseError

(* datetime.strftime(fmt): the fields written in layout fmt. *)
strftime(dt, fmt) == [dt EXCEPT !.fmt = fmt]

(* datetime.date(): the calendar date, time of day dropped. *)
DateOf(dt) == <<dt.y, dt.mo, dt.d>>

NextDay(dt) ==
    IF dt.d < DaysInMonth(dt.y, dt.mo) THEN [dt EXCEPT !.d = dt.d + 1]
    ELSE IF dt.mo < 12 THEN [dt EXCEPT !.d = 1, !.mo = dt.mo + 1]
    ELSE [dt EXCEPT !.d = 1, !.mo = 1, !.y = dt.y + 1]

RECURSIVE AddDays(_, _)
AddDays(dt, n) == IF n = 0 THEN dt ELSE AddDays(NextDay(dt), n - 1)

(* The sum that wraps around the clock and stays on the same day. *)
AddMinutes_sameday(dt, duration) ==
    LET total == dt.h * 60 + dt.mi + duration
    IN  [dt EXCEPT !.h = (total % 1440) \div 60, !.mi = total % 60]

(* start_datetime + timedelta(minutes=duration), duration >= 0. *)
AddMinutes(dt, duration) ==
    LET total == dt.h * 60 + dt.mi + duration
    IN  [AddDays(dt, total \div 1440) EXCEPT
            !.h = (total % 1440) \div 60, !.mi = total % 60]

----------------------------------------------------------------------------
(* The credential store (auth.py)                                           *)

Customers == {"c1"}

(* The keys secrets.choice can draw, and a key no draw produces. *)
KeySpace == {"k1"}
NeverIssued == "k0"

Row(c, k) == [customer_id |-> c, api_key |-> k, is_active |-> TRUE]

(* The rows a SELECT ... WHERE api_key = ? sees, in table order. *)
RowsWithKey(k) == SelectSeq(api_keys, LAMBDA r : r.api_key = k)

(* APIKeyManager.verify_api_key *)
verify_api_key(k) ==
    LET result == RowsWithKey(k)
    IN  result # <<>> /\ result[1].is_active

(* APIKeyManager.get_customer_id *)
get_customer_id(k) ==
    LET result == SelectSeq(RowsWithKey(k), LAMBDA r : r.is_active)
    IN  IF result # <<>> THEN result[1].customer_id ELSE None

(* APIKeyManager.generate_api_key, called by the generate_key route, as one *)
(* step between two attendance requests: the drawn key is inserted and      *)
(* committed; on a UNIQUE violation nothing is written (the steps of the    *)
(* call and of its second attempt are those of SpecKeys below).             *)
generate_api_key(c, k) ==
    /\ pc = "idle"
    /\ IF RowsWithKey(k) = <<>>
       THEN api_keys' = Append(api_keys, Row(c, k))
       ELSE api_keys' = api_keys
    /\ UNCHANGED <<pc, req, filter_datetime, user_id, course_id,
                   training_data, idx, sessions_data, calls, response>>

----------------------------------------------------------------------------
(* The inbound request and the upstream answers                             *)

Request(k, s, b, f) ==
    [api_key |-> k, org_emp_code |-> s, batch_id |-> b, attendanceDate |-> f]

NoRequest == Request(None, None, None, NoDate)

HeaderKeys == {None, NeverIssued} \cup KeySpace
StudentIds == {None, "S1"}
BatchIds == {None, "B1"}

Day1 == DateStr(FmtFilter, 2024, 12, 25, 0, 0, 0)

(* attendanceDate: missing, a well-formed date, a date written in another   *)
(* layout, and a YYYY-MM-DD text that names no calendar day.                *)
FilterDates ==
    {NoDate, Day1,
     DateStr(FmtCanonical, 2024, 12, 25, 0, 0, 0),
     DateStr(FmtFilter, 2023, 2, 29, 0, 0, 0)}

(* An answer of the LMS: code 0 stands for a requests.RequestException. *)
Transport == 0
ErrorCodes == {Transport, 401, 404, 500}

UserResponses ==
    {[code |-> c, id |-> None] : c \in ErrorCodes}
    \cup {[code |-> 200, id |-> i] : i \in {None, "U1"}}

CourseResponses ==
    {[code |-> c, ids |-> <<>>] : c \in ErrorCodes}
    \cup {[code |-> 200, ids |-> l] :
            l \in {<<>>, <<None>>, <<"C1">>, <<"C1", "C2">>, <<None, "C2">>}}

ILT == "Instructor-led training"

(* The (completion_status, score) pairs a unit of the status answer has:    *)
(* just above the pass mark, on it, a score that is no number, and a unit   *)
(* with neither key set to a passing value (no status, numeral score).      *)
Grades ==
    {<<"Completed", Num(51)>>, <<"Completed", Num(50)>>,
     <<"Completed", Text>>, <<None, NumStr(75)>>}

(* completion_status None stands for a unit without that key. *)
RawUnit(type, g) == [type |-> type, completion_status |-> g[1], score |-> g[2]]

RawUnits ==
    {RawUnit(ILT, g) : g \in Grades}
    \cup {RawUnit("Test", <<"Completed", Absent>>)}

(* The units of an answer carry their position as id. *)
WithIds(l) ==
    [i \in 1..Len(l) |->
        [id |-> i, type |-> l[i].type,
         completion_status |-> l[i].completion_status, score |-> l[i].score]]

StatusResponses ==
    {[code |-> c, units |-> <<>>] : c \in ErrorCodes}
    \cup {[code |-> 200, units |-> WithIds(l)] : l \in SeqUpTo(RawUnits, MaxUnits)}

RawSession(n, start, dur) ==
    [name |-> n, description |-> None, start_date |-> start,
     duration_minutes |-> dur]

(* A session on Day1, one late on another day that ends after midnight,     *)
(* and one on Day1 whose start is written in the ISO layout.                *)
RawSessions ==
    {RawSession("A", DateStr(FmtUpstream, 2024, 12, 25, 14, 30, 0), Num(90)),
     RawSession("B", DateStr(FmtUpstream, 2024, 12, 31, 23, 30, 0), NumStr(45)),
     RawSession("C", DateStr(FmtIso, 2024, 12, 25, 14, 30, 0), Text)}

SessionResponses ==
    {[code |-> c, sessions |-> <<>>] : c \in ErrorCodes}
    \cup {[code |-> 200, sessions |-> l] : l \in SeqUpTo(RawSessions, MaxSessions)}

----------------------------------------------------------------------------
(* HTTP responses of get_data                                               *)

(* The value of 'Successattendance': the record list, or a text naming the  *)
(* requested date; k = "none" in a body without that key.                   *)
NoAttendance == [k |-> "none", list |-> <<>>, text |-> "", date |-> NoDate]

(* jsonify(body), status: error is the 'error' text of the body (detail the *)
(* upstream status the text quotes, if any), attendance the value of the    *)
(* 'Successattendance' key.                                                 *)
Response(status, error, detail, attendance) ==
    [status |-> status, error |-> error, detail |-> detail,
     attendance |-> attendance]

NoResponse == Response(0, "", 0, NoAttendance)

ErrorResponse(status, error, detail) ==
    Response(status, error, detail, NoAttendance)

(* The texts of the bodies, without the values formatted into them. *)
MsgNoKey == "No API key provided"
MsgBadKey == "Invalid API key"
MsgMissingParams == "Missing required parameters"
MsgBadDate == "Invalid date format. Please use YYYY-MM-DD format"
MsgLmsKey == "Invalid API Key. Please provide a valid API Key."
MsgUserNotFound == "User with student_id not found."
MsgUserError == "Error fetching user details"
MsgUserNoId == "User ID not found for the provided student_id."
MsgCourseNotFound == "Course with batch ID not found."
MsgCourseError == "Error fetching course details"
MsgNoCourses == "No courses found for the batch ID."
MsgCourseNoId == "Course ID not found for the provided batch ID."
MsgStatusError == "Error fetching user status in course"
MsgNoUnits == "No 'Instructor-led training' units found."
MsgException == "An error occurred"
MsgNoSessions == "No ILT sessions found for date"

Call(op, unit, code, ok) == [op |-> op, unit |-> unit, code |-> code, ok |-> ok]

(* get_data, line 243: a string from the fetcher is sent as a 400. *)
TrainingError(msg, detail) == ErrorResponse(400, msg, detail)

----------------------------------------------------------------------------
(* get_data up to the first upstream call: the caller-key gate, the         *)
(* required parameters and the date format.                                 *)

(* The validation with the parameters looked at before the caller's key. *)
ValidateRequest_paramsfirst(r) ==
    IF Falsy(r.org_emp_code) \/ Falsy(r.batch_id) \/ r.attendanceDate = NoDate
         THEN ErrorResponse(400, MsgMissingParams, 0)
    ELSE IF strptime(r.attendanceDate, FmtFilter) = ParseError
         THEN ErrorResponse(400, MsgBadDate, 0)
    ELSE IF Falsy(r.api_key) THEN ErrorResponse(401, MsgNoKey, 0)
    ELSE IF Falsy(get_customer_id(r.api_key)) THEN ErrorResponse(401, MsgBadKey, 0)
    ELSE NoResponse

(* The validation without the check of the date format. *)
ValidateRequest_nodate(r) ==
    IF Falsy(r.api_key) THEN ErrorResponse(401, MsgNoKey, 0)
    ELSE IF Falsy(get_customer_id(r.api_key)) THEN ErrorResponse(401, MsgBadKey, 0)
    ELSE IF Falsy(r.org_emp_code) \/ Falsy(r.batch_id) \/ r.attendanceDate = NoDate
         THEN ErrorResponse(400, MsgMissingParams, 0)
    ELSE NoResponse

ValidateRequest(r) ==
    IF Falsy(r.api_key) THEN ErrorResponse(401, MsgNoKey, 0)
    ELSE IF Falsy(get_customer_id(r.api_key)) THEN ErrorResponse(401, MsgBadKey, 0)
    ELSE IF Falsy(r.org_emp_code) \/ Falsy(r.batch_id) \/ r.attendanceDate = NoDate
         THEN ErrorResponse(400, MsgMissingParams, 0)
    ELSE IF strptime(r.attendanceDate, FmtFilter) = ParseError
         THEN ErrorResponse(400, MsgBadDate, 0)
    ELSE NoResponse

get_data(k, s, b, f) ==
    /\ pc = "idle"
    /\ req' = Request(k, s, b, f)
    /\ LET r == ValidateRequest(req')
       IN  IF r # NoResponse
           THEN /\ response' = r
                /\ pc' = "done"
                /\ UNCHANGED filter_datetime
           ELSE /\ filter_datetime' = strptime(f, FmtFilter)
                /\ pc' = "user"
                /\ UNCHANGED response
    /\ UNCHANGED <<api_keys, user_id, course_id, training_data, idx,
                   sessions_data, calls>>

(* The handler has returned: its locals are gone. *)
(* The handler leaving its record list behind for the next request. *)
Return_keep ==
    /\ pc = "done"
    /\ pc' = "idle"
    /\ req' = NoRequest
    /\ filter_datetime' = NoDate
    /\ user_id' = None
    /\ course_id' = None
    /\ training_data' = <<>>
    /\ idx' = 0
    /\ calls' = <<>>
    /\ response' = NoResponse
    /\ UNCHANGED <<api_keys, sessions_data>>

Return ==
    /\ pc = "done"
    /\ pc' = "idle"
    /\ req' = NoRequest
    /\ filter_datetime' = NoDate
    /\ user_id' = None
    /\ course_id' = None
    /\ training_data' = <<>>
    /\ idx' = 0
    /\ sessions_data' = <<>>
    /\ calls' = <<>>
    /\ response' = NoResponse
    /\ UNCHANGED api_keys

----------------------------------------------------------------------------
(* fetch_instructor_led_training: the three lookups                         *)

UserResult(a) ==
    IF a.code = Transport THEN TrainingError(MsgException, 0)
    ELSE IF a.code = 401 THEN TrainingError(MsgLmsKey, 0)
    ELSE IF a.code = 404 THEN TrainingError(MsgUserNotFound, 0)
    ELSE IF a.code # 200 THEN TrainingError(MsgUserError, a.code)
    ELSE IF Falsy(a.id) THEN TrainingError(MsgUserNoId, 0)
    ELSE NoResponse

user_lookup(a) ==
    /\ pc = "user"
    /\ calls' = Append(calls, Call("user", 0, a.code, UserResult(a) = NoResponse))
    /\ IF UserResult(a) # NoResponse
       THEN /\ response' = UserResult(a)
            /\ pc' = "done"
            /\ UNCHANGED user_id
       ELSE /\ user_id' = a.id
            /\ pc' = "course"
            /\ UNCHANGED response
    /\ UNCHANGED <<api_keys, req, filter_datetime, course_id, training_data,
                   idx, sessions_data>>

CourseResult(a) ==
    IF a.code = Transport THEN TrainingError(MsgException, 0)
    ELSE IF a.code = 404 THEN TrainingError(MsgCourseNotFound, 0)
    ELSE IF a.code # 200 THEN TrainingError(MsgCourseError, a.code)
    ELSE IF a.ids = <<>> THEN TrainingError(MsgNoCourses, 0)
    ELSE IF Falsy(a.ids[1]) THEN TrainingError(MsgCourseNoId, 0)
    ELSE NoResponse

course_lookup(a) ==
    /\ pc = "course"
    /\ calls' = Append(calls, Call("course", 0, a.code, CourseResult(a) = NoResponse))
    /\ IF CourseResult(a) # NoResponse
       THEN /\ response' = CourseResult(a)
            /\ pc' = "done"
            /\ UNCHANGED course_id
       ELSE /\ course_id' = a.ids[1]
            /\ pc' = "status"
            /\ UNCHANGED response
    /\ UNCHANGED <<api_keys, req, filter_datetime, user_id, training_data,
                   idx, sessions_data>>

(* The filter letting the units of every type through. *)
InScope_any(unit) == TRUE

(* Lines 90-99: the units of type ILT, with the defaults of the two gets. *)
InScope(unit) == unit.type = ILT

TrainingUnit(unit) ==
    [id |-> unit.id,
     completion_status |->
        IF unit.completion_status = None THEN "Failed" ELSE unit.completion_status,
     score |-> Get(unit.score, Num(0))]

instructor_led_units(units) ==
    LET kept == SelectSeq(units, InScope)
    IN  [i \in 1..Len(kept) |-> TrainingUnit(kept[i])]

StatusResult(a) ==
    IF a.code = Transport THEN TrainingError(MsgException, 0)
    ELSE IF a.code # 200 THEN TrainingError(MsgStatusError, a.code)
    ELSE IF instructor_led_units(a.units) = <<>> THEN TrainingError(MsgNoUnits, 0)
    ELSE NoResponse

status_lookup(a) ==
    /\ pc = "status"
    /\ calls' = Append(calls, Call("status", 0, a.code, StatusResult(a) = NoResponse))
    /\ IF StatusResult(a) # NoResponse
       THEN /\ response' = StatusResult(a)
            /\ pc' = "done"
            /\ UNCHANGED <<training_data, idx>>
       ELSE /\ training_data' = instructor_led_units(a.units)
            /\ idx' = 1
            /\ pc' = "sessions"
            /\ UNCHANGED response
    /\ UNCHANGED <<api_keys, req, filter_datetime, user_id, course_id,
                   sessions_data>>

----------------------------------------------------------------------------
(* get_ilt_sessions_by_id                                                   *)

(* Lines 131-134: int(session.get('duration_minutes', '0')), 0 on error. *)
Duration(session) ==
    LET d == Get(session.duration_minutes, NumStr(0))
    IN  IF IntOk(d) THEN d.v ELSE 0

(* Lines 136-150: the start in the canonical layout and the end derived     *)
(* from it; both None when the start is missing or does not parse.          *)
StartDatetime(session) == strptime(session.start_date, FmtUpstream)

FormattedStart(session) ==
    IF session.start_date = NoDate \/ StartDatetime(session) = ParseError
    THEN NoDate
    ELSE strftime(StartDatetime(session), FmtCanonical)

EndDate(session) ==
    IF session.start_date = NoDate \/ StartDatetime(session) = ParseError
    THEN NoDate
    ELSE strftime(AddMinutes(StartDatetime(session), Duration(session)),
                  FmtCanonical)

(* Lines 152-160.  sess and src are not fields of the program: they record  *)
(* the position of the session in the upstream list and its upstream start. *)
SessionData(session, i) ==
    [attendance |-> None,
     session_name |-> session.name,
     session_description |-> session.description,
     start_date |-> FormattedStart(session),
     end_date |-> EndDate(session),
     duration_minutes |-> Duration(session),
     sess |-> i,
     src |-> session.start_date]

simplified_sessions(sessions) ==
    [i \in 1..Len(sessions) |-> SessionData(sessions[i], i)]

(* The string get_ilt_sessions_by_id returns instead of a list, "" if it    *)
(* returns the list.                                                        *)
SessionsError(a) ==
    IF a.code = Transport THEN MsgException
    ELSE IF a.code = 401 THEN MsgLmsKey
    ELSE IF a.code = 404 THEN "No ILT sessions found for ILT ID"
    ELSE IF a.code # 200 THEN "Error fetching ILT sessions"
    ELSE IF a.sessions = <<>> THEN "No sessions available for ILT ID"
    ELSE ""

----------------------------------------------------------------------------
(* get_data: the loop over the units                                        *)

(* The filter with the comparison of the two dates left out. *)
DateMatches_any(session_date, filter_date) == TRUE

(* Lines 258-265: the session is kept when its canonical start parses and   *)
(* falls on the requested day.                                              *)
DateMatches(session_date, filter_date) == session_date = filter_date

(* The filter letting the sessions without a start through as well. *)
Kept_undated(session) ==
    \/ session.start_date = NoDate
    \/ /\ strptime(session.start_date, FmtCanonical) # ParseError
       /\ DateMatches(DateOf(strptime(session.start_date, FmtCanonical)),
                      DateOf(filter_datetime))

Kept(session) ==
    /\ session.start_date # NoDate
    /\ strptime(session.start_date, FmtCanonical) # ParseError
    /\ DateMatches(DateOf(strptime(session.start_date, FmtCanonical)),
                   DateOf(filter_datetime))

(* Lines 269-273: float(unit.get('score', 0)), 0 on error. *)
Score(unit) ==
    LET sc == Get(unit.score, Num(0))
    IN  IF FloatOk(sc) THEN sc.v ELSE 0

(* The pass mark taken as reached at 50. *)
Attendance_atleast(unit) ==
    IF unit.completion_status = "Completed" /\ Score(unit) >= 50
    THEN "Passed" ELSE "Failed"

(* Line 278 *)
Attendance(unit) ==
    IF unit.completion_status = "Completed" /\ Score(unit) > 50
    THEN "Passed" ELSE "Failed"

(* The blanking with the duration forgotten. *)
Blanked_times(rec) ==
    IF rec.attendance = "Failed"
    THEN [rec EXCEPT !.in_time = NoDate, !.out_time = NoDate]
    ELSE rec

(* Lines 276-290.  unit, sess and src are not fields of the program: they   *)
(* record where the record comes from.                                      *)
Blanked(rec) ==
    IF rec.attendance = "Failed"
    THEN [rec EXCEPT !.duration_minutes = 0, !.in_time = NoDate,
                     !.out_time = NoDate]
    ELSE rec

ordered_session(unit, u, session) ==
    Blanked([org_emp_code |-> req.org_emp_code,
             attendance |-> Attendance(unit),
             session_name |-> session.session_name,
             session_description |-> session.session_description,
             in_time |-> session.start_date,
             out_time |-> session.end_date,
             duration_minutes |-> session.duration_minutes,
             unit |-> u,
             sess |-> session.sess,
             src |-> session.src])

filtered_sessions(unit, u, ilt_sessions) ==
    LET kept == SelectSeq(ilt_sessions, Kept)
    IN  [i \in 1..Len(kept) |-> ordered_session(unit, u, kept[i])]

(* The records of a unit put in front of those of the units before it. *)
Extend_front(data, filtered) == filtered \o data

(* Line 296 *)
Extend(data, filtered) == data \o filtered

(* The payload without the test for an empty list. *)
Successattendance_list(data) ==
    [k |-> "list", list |-> data, text |-> "", date |-> NoDate]

(* Lines 298-309 *)
Successattendance(data) ==
    IF data # <<>>
    THEN [k |-> "list", list |-> data, text |-> "", date |-> NoDate]
    ELSE [k |-> "message", list |-> <<>>, text |-> MsgNoSessions,
          date |-> req.attendanceDate]

FinalResponse(data) == Response(200, "", 0, Successattendance(data))

(* The loop asking again for a unit whose fetch returned an error string. *)
LoopStep_retry(ok, data) ==
    IF ~ok
    THEN [pc |-> "sessions", idx |-> idx, response |-> response]
    ELSE IF idx < Len(training_data)
    THEN [pc |-> "sessions", idx |-> idx + 1, response |-> response]
    ELSE [pc |-> "done", idx |-> idx, response |-> FinalResponse(data)]

(* The handler ending after the last unit without building its response. *)
LoopStep_noresponse(ok, data) ==
    IF idx < Len(training_data)
    THEN [pc |-> "sessions", idx |-> idx + 1, response |-> response]
    ELSE [pc |-> "done", idx |-> idx, response |-> response]

(* The loop giving up at the first fetch that returns an error string. *)
LoopStep_failfast(ok, data) ==
    IF ~ok
    THEN [pc |-> "done", idx |-> idx,
          response |-> ErrorResponse(400, MsgException, 0)]
    ELSE IF idx < Len(training_data)
    THEN [pc |-> "sessions", idx |-> idx + 1, response |-> response]
    ELSE [pc |-> "done", idx |-> idx, response |-> FinalResponse(data)]

(* Lines 248-254 and 298-309: whatever the fetch returned, the loop goes on *)
(* to the next unit, and after the last one the response is built.          *)
LoopStep(ok, data) ==
    IF idx < Len(training_data)
    THEN [pc |-> "sessions", idx |-> idx + 1, response |-> response]
    ELSE [pc |-> "done", idx |-> idx, response |-> FinalResponse(data)]

(* One pass of the loop: the fetch for unit idx, the filter of its          *)
(* sessions, and after the last unit the response.                          *)
session_fetch(a) ==
    /\ pc = "sessions"
    /\ LET unit == training_data[idx]
           ok == SessionsError(a) = ""
           data == IF ok
                   THEN Extend(sessions_data,
                               filtered_sessions(unit, idx,
                                                 simplified_sessions(a.sessions)))
                   ELSE sessions_data
           step == LoopStep(ok, sessions_data')
       IN  /\ calls' = Append(calls, Call("sessions", unit.id, a.code, ok))
           /\ sessions_data' = data
           /\ pc' = step.pc
           /\ idx' = step.idx
           /\ response' = step.response
    /\ UNCHANGED <<api_keys, req, filter_datetime, user_id, course_id,
                   training_data>>

----------------------------------------------------------------------------
(* APIKeyManager.generate_api_key, statement by statement, called by        *)
(* several workers of the server at once                                    *)

Procs == {1, 2}
KeyCustomers == {"c1", "c2"}
KeyDraws == {"k1", "k2"}

(* What a call that raised sqlite3.OperationalError ("database is locked")  *)
(* gives its caller instead of a key.                                       *)
Locked == "<OperationalError>"

(* A worker outside generate_api_key; result is what its last call gave. *)
IdleCall ==
    [pc |-> "idle", customer_id |-> None, api_key |-> None,
     collided |-> FALSE, result |-> None]

(* The call has returned a key. *)
Returned(g) == g.pc = "idle" /\ g.result \in KeyDraws

(* issued after a step that leaves worker p in g. *)
Issue(g) ==
    issued' = IF Returned(g)
              THEN Append(issued, <<g.customer_id, g.result>>)
              ELSE issued

(* Lines 29-36: the key is drawn and a connection opened. *)
gen_start(p, c, k) ==
    /\ gen[p].pc = "idle"
    /\ gen' = [gen EXCEPT ![p] =
                 [pc |-> "insert", customer_id |-> c, api_key |-> k,
                  collided |-> FALSE, result |-> None]]
    /\ UNCHANGED <<api_keys, lock, issued, handler, history>>

(* The handler answering the UNIQUE violation with the key it drew. *)
IntegrityError_returnkey(g) == [g EXCEPT !.pc = "idle", !.result = g.api_key]

(* Lines 45-47: the UNIQUE violation is caught, and the call is made again  *)
(* from inside the handler, before the finally clause closes the            *)
(* connection.                                                              *)
IntegrityError(g) == [g EXCEPT !.pc = "retry", !.collided = TRUE]

(* Lines 38-42: the INSERT opens a transaction and takes the write lock,    *)
(* which is free; it fails if a committed row holds the key.                *)
gen_insert(p) ==
    /\ gen[p].pc = "insert"
    /\ lock = 0
    /\ lock' = p
    /\ LET g == IF RowsWithKey(gen[p].api_key) # <<>>
                THEN IntegrityError(gen[p])
                ELSE [gen[p] EXCEPT !.pc = "commit"]
       IN  gen' = [gen EXCEPT ![p] = g] /\ Issue(g)
    /\ UNCHANGED <<api_keys, handler, history>>

(* Lines 43-44, 48-49: the row is committed, the lock released, the key     *)
(* returned.                                                                *)
gen_commit(p) ==
    /\ gen[p].pc = "commit"
    /\ api_keys' = Append(api_keys, Row(gen[p].customer_id, gen[p].api_key))
    /\ lock' = 0
    /\ LET g == [gen[p] EXCEPT !.pc = "idle", !.result = gen[p].api_key]
       IN  gen' = [gen EXCEPT ![p] = g] /\ Issue(g)
    /\ UNCHANGED <<handler, history>>

(* Line 47, then lines 32-36 of the inner call: a new key is drawn and a    *)
(* second connection opened, while the first still has its transaction and  *)
(* the write lock.                                                          *)
gen_retry(p, k) ==
    /\ gen[p].pc = "retry"
    /\ gen' = [gen EXCEPT ![p].pc = "insert", ![p].api_key = k]
    /\ UNCHANGED <<api_keys, lock, issued, handler, history>>

(* Lines 38-42, 48-49: the INSERT finds the write lock taken, by another    *)
(* worker or by the first connection of this call, until the timeout of     *)
(* sqlite3.connect runs out; OperationalError is not caught, and the        *)
(* finally clauses close the connections of the call.                       *)
gen_timeout(p) ==
    /\ gen[p].pc = "insert"
    /\ lock # 0
    /\ lock' = IF lock = p THEN 0 ELSE lock
    /\ gen' = [gen EXCEPT ![p].pc = "idle", ![p].result = Locked]
    /\ UNCHANGED <<api_keys, issued, handler, history>>

----------------------------------------------------------------------------
(* The history of one earlier request                                       *)

NoRun ==
    [req |-> NoRequest, trace |-> <<>>, response |-> NoResponse, later |-> 0]

(* The key gate let the request through. *)
Admitted == response.error \notin {MsgNoKey, MsgBadKey}

(* The finished request is remembered, if it was let through and none is    *)
(* remembered yet; otherwise it is counted (up to 2) as one that ended      *)
(* after the remembered one.                                                *)
Remember ==
    \/ /\ first = NoRun
       /\ Admitted
       /\ first' = [req |-> req, trace |-> trace, response |-> response,
                    later |-> 0]
    \/ /\ first' = IF first = NoRun \/ first.later = 2 THEN first
                    ELSE [first EXCEPT !.later = first.later + 1]

----------------------------------------------------------------------------

Init ==
    /\ api_keys = <<>>
    /\ pc = "idle"
    /\ req = NoRequest
    /\ filter_datetime = NoDate
    /\ user_id = None
    /\ course_id = None
    /\ training_data = <<>>
    /\ idx = 0
    /\ sessions_data = <<>>
    /\ calls = <<>>
    /\ response = NoResponse
    /\ gen = [p \in Procs |-> IdleCall]
    /\ lock = 0
    /\ issued = <<>>
    /\ trace = <<>>
    /\ first = NoRun

Next ==
    \/ \E c \in Customers, k \in KeySpace :
          generate_api_key(c, k) /\ UNCHANGED <<store, history>>
    \/ \E k \in HeaderKeys, s \in StudentIds, b \in BatchIds, f \in FilterDates :
          get_data(k, s, b, f) /\ UNCHANGED <<store, history>>
    \/ \E a \in UserResponses : user_lookup(a) /\ UNCHANGED <<store, history>>
    \/ \E a \in CourseResponses : course_lookup(a) /\ UNCHANGED <<store, history>>
    \/ \E a \in StatusResponses : status_lookup(a) /\ UNCHANGED <<store, history>>
    \/ \E a \in SessionResponses : session_fetch(a) /\ UNCHANGED <<store, history>>
    \/ Return /\ UNCHANGED <<store, history>>

Spec == Init /\ [][Next]_vars

(* The key generation alone, by concurrent workers. *)
NextKeys ==
    \/ \E p \in Procs, c \in KeyCustomers, k \in KeyDraws : gen_start(p, c, k)
    \/ \E p \in Procs : gen_insert(p)
    \/ \E p \in Procs : gen_commit(p)
    \/ \E p \in Procs, k \in KeyDraws : gen_retry(p, k)
    \/ \E p \in Procs : gen_timeout(p)

SpecKeys == Init /\ [][NextKeys]_vars

----------------------------------------------------------------------------
(* Requests followed together with the upstream answers they received       *)

(* The answer a of the call op is added to the history of the request. *)
Seen(op, a) ==
    /\ trace' = Append(trace, [op |-> op, a |-> a])
    /\ UNCHANGED <<store, first>>

(* The steps of get_data for requests drawn from K, S, B, F and upstream    *)
(* answers drawn from U, C, T, X.                                           *)
Resolution(K, S, B, F, U, C, T, X) ==
    \/ \E k \in K, s \in S, b \in B, f \in F :
          get_data(k, s, b, f) /\ trace' = <<>> /\ UNCHANGED <<store, first>>
    \/ \E a \in U : user_lookup(a) /\ Seen("user", a)
    \/ \E a \in C : course_lookup(a) /\ Seen("course", a)
    \/ \E a \in T : status_lookup(a) /\ Seen("status", a)
    \/ \E a \in X : session_fetch(a) /\ Seen("sessions", a)

(* The answers of the calls op of the current request, in order. *)
Answers(op) ==
    LET seen == SelectSeq(trace, LAMBDA e : e.op = op)
    IN  [i \in 1..Len(seen) |-> seen[i].a]

UserFound == {[code |-> 200, id |-> "U1"]}
CourseFound == {[code |-> 200, ids |-> <<"C1">>]}

(* Sessions of every kind of start and duration: on Day1 in the upstream    *)
(* layout (D ends on the next day), on Day1 in the ISO layout, without a    *)
(* start, with a start that is no date; with a duration that is a number, a *)
(* numeral, no number, null or missing.                                     *)
SessionKinds ==
    {RawSession("A", DateStr(FmtUpstream, 2024, 12, 25, 14, 30, 0), Num(90)),
     RawSession("C", DateStr(FmtIso, 2024, 12, 25, 14, 30, 0), Text),
     RawSession("D", DateStr(FmtUpstream, 2024, 12, 25, 23, 30, 0), NumStr(45)),
     RawSession("E", NoDate, Null),
     RawSession("F", DateStr("not-a-date", 0, 0, 0, 0, 0, 0), Num(30)),
     RawSession("G", DateStr(FmtUpstream, 2024, 12, 25, 10, 0, 0), Text),
     RawSession("H", DateStr(FmtUpstream, 2024, 12, 25, 11, 0, 0), Absent)}

SessionAnswers ==
    {[code |-> 500, sessions |-> <<>>]}
    \cup {[code |-> 200, sessions |-> l] : l \in SeqUpTo(SessionKinds, MaxSessions)}

(* A unit that passes followed by one that fails. *)
TwoUnits ==
    {[code |-> 200,
      units |-> WithIds(<<RawUnit(ILT, <<"Completed", Num(51)>>),
                          RawUnit(ILT, <<"Completed", Num(50)>>)>>)]}

(* Requests for Day1 whose lookups succeed, with session lists of every     *)
(* kind.                                                                    *)
NextSessions ==
    \/ \E c \in Customers, k \in KeySpace :
          generate_api_key(c, k) /\ UNCHANGED <<store, history>>
    \/ Resolution(KeySpace, {"S1"}, {"B1"}, {Day1},
                  UserFound, CourseFound, TwoUnits, SessionAnswers)
    \/ Return /\ trace' = <<>> /\ UNCHANGED <<store, first>>

SpecSessions == Init /\ [][NextSessions]_vars

(* Units of both types, each unit with one session or a failed fetch. *)
UnitKinds ==
    {RawUnit(ILT, <<"Completed", Num(51)>>), RawUnit(ILT, <<None, NumStr(75)>>),
     RawUnit("Test", <<"Completed", Num(51)>>)}

UnitAnswers ==
    {[code |-> 500, units |-> <<>>]}
    \cup {[code |-> 200, units |-> WithIds(l)] : l \in SeqUpTo(UnitKinds, MaxUnits)}

SomeSessions ==
    {[code |-> 500, sessions |-> <<>>]}
    \cup {[code |-> 200, sessions |-> <<x>>] : x \in RawSessions}

NextUnits ==
    \/ \E c \in Customers, k \in KeySpace :
          generate_api_key(c, k) /\ UNCHANGED <<store, history>>
    \/ Resolution(KeySpace, {"S1"}, {"B1"}, {Day1},
                  UserFound, CourseFound, UnitAnswers, SomeSessions)
    \/ Return /\ trace' = <<>> /\ UNCHANGED <<store, first>>

SpecUnits == Init /\ [][NextUnits]_vars

(* A few requests, answered in a few ways, one after the other. *)
ReplayUnits ==
    {[code |-> 200, units |-> WithIds(<<RawUnit(ILT, <<"Completed", Num(51)>>)>>)],
     [code |-> 200,
      units |-> WithIds(<<RawUnit(ILT, <<"Completed", Num(51)>>),
                          RawUnit(ILT, <<"Completed", Num(50)>>)>>)]}

ReplayUsers == {[code |-> 500, id |-> None], [code |-> 200, id |-> "U1"]}

NextReplay ==
    \/ \E c \in Customers, k \in KeySpace :
          generate_api_key(c, k) /\ UNCHANGED <<store, history>>
    \/ Resolution(KeySpace, StudentIds, {"B1"}, {Day1},
                  ReplayUsers, CourseFound, ReplayUnits, SomeSessions)
    \/ Return /\ trace' = <<>> /\ Remember /\ UNCHANGED store

SpecReplay == Init /\ [][NextReplay]_vars

(* The requests of Spec with the upstream failing in every way, but with    *)
(* fewer kinds of units and one session in a list.                          *)
StatusFair == {[code |-> c, units |-> <<>>] : c \in ErrorCodes} \cup UnitAnswers
SessionsFair ==
    {[code |-> c, sessions |-> <<>>] : c \in ErrorCodes} \cup SomeSessions

user_step == \E a \in UserResponses : user_lookup(a) /\ UNCHANGED <<store, history>>
course_step ==
    \E a \in CourseResponses : course_lookup(a) /\ UNCHANGED <<store, history>>
status_step == \E a \in StatusFair : status_lookup(a) /\ UNCHANGED <<store, history>>
fetch_step == \E a \in SessionsFair : session_fetch(a) /\ UNCHANGED <<store, history>>

NextFair ==
    \/ \E c \in Customers, k \in KeySpace :
          generate_api_key(c, k) /\ UNCHANGED <<store, history>>
    \/ \E k \in HeaderKeys, s \in StudentIds, b \in BatchIds, f \in FilterDates :
          get_data(k, s, b, f) /\ UNCHANGED <<store, history>>
    \/ user_step
    \/ course_step
    \/ status_step
    \/ fetch_step
    \/ Return /\ UNCHANGED <<store, history>>

(* Every upstream call returns, with an answer or a transport failure: a    *)
(* handler waiting for one goes on.                                         *)
FairSpec ==
    /\ Init
    /\ [][NextFair]_vars
    /\ WF_vars(user_step)
    /\ WF_vars(course_step)
    /\ WF_vars(status_step)
    /\ WF_vars(fetch_step)

----------------------------------------------------------------------------
(* Properties                                                               *)

Done == pc = "done"
Success == Done /\ response.status = 200
Failure == Done /\ response.status >= 400

(* The records of the response. *)
Records == response.attendance.list

Last(l) == l[Len(l)]

(* C1: in every successful result, a record whose attendance is "Failed"    *)
(* has no in_time, no out_time and a duration of 0, whatever the start and  *)
(* duration of its session were.                                            *)
C1_FailedIsBlank ==
    \A l \in {sessions_data, Records} : \A i \in 1..Len(l) :
        l[i].attendance = "Failed" =>
            /\ l[i].in_time = NoDate
            /\ l[i].out_time = NoDate
            /\ l[i].duration_minutes = 0

(* A response carries a Failed record of a session that has a start and a   *)
(* duration of 90 minutes upstream.                                         *)
C1_Witness ==
    /\ Success
    /\ \E i \in 1..Len(Records) :
          /\ Records[i].attendance = "Failed"
          /\ Records[i].session_name = "A"
          /\ Records[i].src.fmt = FmtUpstream

(* The score of a unit as the specification reads it: its number, 0 if it has none. *)
CoercedScore(unit) ==
    IF unit.score.k \in {"num", "numstr"} THEN unit.score.v ELSE 0

(* C2: a record is "Passed" exactly when its unit is "Completed" with a     *)
(* score above 50 (no or non-numeric score counting as 0), else "Failed".   *)
C2_PassedIff ==
    \A i \in 1..Len(sessions_data) :
        LET r == sessions_data[i]
            unit == training_data[r.unit]
        IN  /\ r.attendance \in {"Passed", "Failed"}
            /\ r.attendance = "Passed" <=>
                  (unit.completion_status = "Completed" /\ CoercedScore(unit) > 50)

(* One response holds a Passed record, a Failed record of a Completed unit  *)
(* with score 50.                                                           *)
C2_Witness ==
    /\ Success
    /\ \E i, j \in 1..Len(Records) :
          /\ Records[i].attendance = "Passed"
          /\ Records[j].attendance = "Failed"
          /\ training_data[Records[j].unit].completion_status = "Completed"
          /\ training_data[Records[j].unit].score = Num(50)

(* The calendar day written in a date text, whatever its layout. *)
WrittenDay(text) == <<text.y, text.mo, text.d>>

(* C3: every record comes from a session whose start falls on the           *)
(* requested day; a session of another day contributes none.                *)
C3_OnlyRequestedDay ==
    \A i \in 1..Len(sessions_data) :
        /\ sessions_data[i].src # NoDate
        /\ WrittenDay(sessions_data[i].src) = WrittenDay(req.attendanceDate)

(* A response whose unit 1 gave its second session only: the first one was  *)
(* left out.                                                                *)
C3_Witness ==
    /\ Success
    /\ \E i \in 1..Len(Records) :
          /\ Records[i].unit = 1 /\ Records[i].sess = 2
          /\ \A j \in 1..Len(Records) :
                ~(Records[j].unit = 1 /\ Records[j].sess = 1)

(* The calls of one kind, in the order they were issued. *)
CallsOf(op) == SelectSeq(calls, LAMBDA c : c.op = op)

(* A result that tells the caller the LMS credential was rejected: by its   *)
(* status, by its text, or by the upstream status it quotes.                *)
UnauthorizedResult ==
    /\ Failure
    /\ \/ response.status = 401
       \/ response.error = MsgLmsKey
       \/ response.detail = 401

(* C4: an upstream call answered 401 is the last call of the resolution,    *)
(* which ends with an Unauthorized result.                                  *)
C4_UnauthorizedStops ==
    \A i \in 1..Len(calls) :
        calls[i].code = 401 => (i = Len(calls) /\ UnauthorizedResult)

(* C5: when the three lookups succeed and no unit is instructor-led, the    *)
(* resolution ends in success with the "no training units" message and no  *)
(* session fetch is issued.                                                 *)
C5_NoUnitsIsSuccess ==
    (/\ Done
     /\ Len(calls) >= 3
     /\ calls[3].op = "status" /\ calls[3].code = 200
     /\ training_data = <<>>)
    => /\ response.status = 200
       /\ response.attendance.k = "message"
       /\ response.attendance.text = MsgNoUnits
       /\ CallsOf("sessions") = <<>>

(* C6, in every state: once the loop over the units has ended, the result   *)
(* is a success, one session fetch was issued per in-scope unit, in order,  *)
(* and a unit whose fetch failed has no record in the result.               *)
C6_State ==
    (Done /\ training_data # <<>>) =>
        LET fetches == CallsOf("sessions")
        IN  /\ response.status = 200
            /\ Len(fetches) = Len(training_data)
            /\ \A u \in 1..Len(fetches) :
                  /\ fetches[u].unit = training_data[u].id
                  /\ ~fetches[u].ok =>
                        \A i \in 1..Len(sessions_data) : sessions_data[i].unit # u

(* C6, in every step: a session fetch that fails (a status other than 200,  *)
(* an empty body, a transport failure) leaves the records as they are and   *)
(* moves on to the next unit, or to a success response after the last one.  *)
C6_Step ==
    (pc = "sessions" /\ calls' # calls /\ ~Last(calls').ok) =>
        /\ sessions_data' = sessions_data
        /\ idx < Len(training_data) => (pc' = "sessions" /\ idx' = idx + 1)
        /\ idx = Len(training_data) =>
              (pc' = "done" /\ response'.status = 200
               /\ response'.attendance = Successattendance(sessions_data)')

(* C6: a failed session fetch never fails the request.                      *)
C6_FetchFailureIsolated == []C6_State /\ [][C6_Step]_vars

(* The first of two fetches failed with a status other than 200 and the     *)
(* response still carries a record, of the second unit.                     *)
C6_Witness ==
    /\ Success
    /\ Len(CallsOf("sessions")) = 2
    /\ CallsOf("sessions")[1].code = 500
    /\ Len(Records) > 0

(* A requested date that is a YYYY-MM-DD text naming a calendar day. *)
WellFormedDate(text) ==
    /\ text.fmt = FmtFilter
    /\ text.mo \in 1..12
    /\ text.d \in 1..DaysInMonth(text.y, text.mo)

PipelineOrder == <<"user", "course", "status">>

(* C7: no upstream call for a malformed date; the calls come in the order   *)
(* user, course, unit status, session fetches; a failed user or course      *)
(* lookup is the last call and ends the resolution in failure.              *)
C7_FailFast ==
    /\ (req # NoRequest /\ ~WellFormedDate(req.attendanceDate)) =>
          (calls = <<>> /\ Failure)
    /\ \A i \in 1..Len(calls) :
          /\ calls[i].op = (IF i <= 3 THEN PipelineOrder[i] ELSE "sessions")
          /\ (i <= 3 /\ ~calls[i].ok) => (i = Len(calls) /\ Failure)

(* The user lookup succeeded, the course lookup failed, and nothing else    *)
(* was called.                                                              *)
C7_Witness ==
    /\ Failure
    /\ Len(calls) = 2
    /\ calls[1].ok /\ ~calls[2].ok

(* C8: a failed request has status 401 when a credential was rejected (the  *)
(* caller's key, or the LMS credential by an upstream 401) and status 400   *)
(* otherwise.                                                               *)
CredentialRejected ==
    \/ response.error \in {MsgNoKey, MsgBadKey, MsgLmsKey}
    \/ (calls # <<>> /\ Last(calls).code = 401)

C8_StatusClass ==
    Failure => response.status = (IF CredentialRejected THEN 401 ELSE 400)

(* C9: the records are ordered by unit, and within a unit by the position   *)
(* of their session in the upstream list.                                   *)
C9_Ordered ==
    \A l \in {sessions_data, Records} : \A i, j \in 1..Len(l) :
        i < j =>
            \/ training_data[l[i].unit].id < training_data[l[j].unit].id
            \/ (l[i].unit = l[j].unit /\ l[i].sess < l[j].sess)

(* A response with two records of the first unit and one of the second. *)
C9_Witness ==
    /\ Success
    /\ Len(Records) = 3
    /\ Records[1].unit = 1 /\ Records[2].unit = 1 /\ Records[3].unit = 2

(* C10: a success whose aggregate is empty carries the "no sessions found   *)
(* for date X" message with the requested date, and no success carries an   *)
(* empty list.                                                              *)
C10_NoEmptyList ==
    Success =>
        /\ response.attendance.k \in {"list", "message"}
        /\ response.attendance.k = "list" =>
              (Records # <<>> /\ Records = sessions_data)
        /\ sessions_data = <<>> =>
              /\ response.attendance.k = "message"
              /\ response.attendance.text = MsgNoSessions
              /\ response.attendance.date = req.attendanceDate

(* Every fetch failed and the response is the message. *)
C10_Witness ==
    /\ Success
    /\ response.attendance.k = "message"
    /\ Len(CallsOf("sessions")) = 2
    /\ \A i \in 1..2 : ~CallsOf("sessions")[i].ok

(* C11: within one resolution there is at most one user, one course and one *)
(* unit-status lookup and one session fetch per in-scope unit, failed or    *)
(* not; the calls never number more than 3 plus the in-scope units.         *)
C11_OneCallEach ==
    LET fetches == CallsOf("sessions")
    IN  /\ \A op \in {"user", "course", "status"} : Len(CallsOf(op)) <= 1
        /\ Len(fetches) <= Len(training_data)
        /\ \A u \in 1..Len(fetches) : fetches[u].unit = training_data[u].id
        /\ (Done /\ training_data # <<>>) => Len(fetches) = Len(training_data)
        /\ Len(calls) <= 3 + Len(training_data)

(* Two units, the fetch of the first failed, and five calls were issued. *)
C11_Witness ==
    /\ Done
    /\ Len(training_data) = 2
    /\ Len(calls) = 5
    /\ ~calls[4].ok

(* A key some row of the table holds. *)
Stored(k) == \E i \in 1..Len(api_keys) : api_keys[i].api_key = k

(* The request names no student, no batch or no well-formed date. *)
BadParameters ==
    \/ Falsy(req.org_emp_code)
    \/ Falsy(req.batch_id)
    \/ strptime(req.attendanceDate, FmtFilter) = ParseError

(* C14: a key no row holds verifies false and resolves to no customer; a    *)
(* request whose key is missing or held by no row ends with a 401 naming    *)
(* the key, whatever its parameters are, and no upstream call is made for   *)
(* it at any point.                                                         *)
C14_KeyGateFirst ==
    /\ \A k \in HeaderKeys \ {None} :
          ~Stored(k) => (~verify_api_key(k) /\ get_customer_id(k) = None)
    /\ (pc # "idle" /\ (Falsy(req.api_key) \/ ~Stored(req.api_key))) =>
          /\ Done
          /\ response.status = 401
          /\ response.error \in {MsgNoKey, MsgBadKey}
          /\ calls = <<>>

(* A request with a never-issued key and bad parameters, while another key  *)
(* is in the table, was rejected with a 401.                                *)
C14_Witness ==
    /\ Done
    /\ api_keys # <<>>
    /\ req.api_key = NeverIssued
    /\ BadParameters
    /\ response.status = 401

(* The handler is between two upstream calls. *)
Running == pc \in {"user", "course", "status", "sessions"}

(* The three ways a resolution ends. *)
SuccessRecords ==
    /\ response.status = 200
    /\ response.attendance.k = "list"
    /\ response.attendance.list # <<>>

SuccessMessage ==
    /\ response.status = 200
    /\ response.attendance.k = "message"
    /\ response.attendance.text = MsgNoSessions

FailureMessage ==
    /\ response.status \in {400, 401}
    /\ response.error # ""
    /\ response.attendance = NoAttendance

TerminalStates ==
    {t \in {"records", "message", "failure"} :
        \/ t = "records" /\ SuccessRecords
        \/ t = "message" /\ SuccessMessage
        \/ t = "failure" /\ FailureMessage}

(* C15: when every upstream call returns, a handler that has started its    *)
(* lookups ends; it ends in exactly one of records, no-data message and     *)
(* failure; once ended it makes no upstream call and changes nothing of its *)
(* result: its only step is to hand the response back.                      *)
C15_Terminates ==
    /\ [](Done => Cardinality(TerminalStates) = 1)
    /\ [][Done => (pc' = "idle" /\ calls' = <<>> /\ response' = NoResponse)]_vars
    /\ (Running ~> Done)

(* A resolution that made all its calls ended with records. *)
C15_Witness ==
    /\ Done
    /\ SuccessRecords
    /\ Len(calls) = 3 + Len(training_data)

(* C13: no two calls of generate_api_key return the same key, no two rows   *)
(* hold the same key, and a call whose insert hit a stored key ends by      *)
(* returning a key it drew again, which is not the key of the collision.    *)
C13_CollisionRetried ==
    /\ \A i, j \in 1..Len(issued) : issued[i][2] = issued[j][2] => i = j
    /\ \A i, j \in 1..Len(api_keys) :
          api_keys[i].api_key = api_keys[j].api_key => i = j
    /\ \A p \in Procs :
          (gen[p].pc = "idle" /\ gen[p].collided) => gen[p].result \in KeyDraws

(* C20: a pair (c, k) returned by generate_api_key verifies and resolves to *)
(* c in every later state, whatever other calls do; a key a call has        *)
(* returned is the key of a committed row of its customer.                  *)
C20_RoundTrip ==
    /\ \A i \in 1..Len(issued) :
          /\ verify_api_key(issued[i][2])
          /\ get_customer_id(issued[i][2]) = issued[i][1]
    /\ \A p \in Procs :
          Returned(gen[p]) =>
              \E i \in 1..Len(api_keys) :
                  api_keys[i] = Row(gen[p].customer_id, gen[p].result)

(* Two keys were returned to two customers, and a later call drew a stored  *)
(* key.                                                                     *)
C20_Witness ==
    /\ Len(issued) = 2
    /\ issued[1][1] # issued[2][1]
    /\ \E p \in Procs : gen[p].collided

(* The units of the unit-status answer of the current request. *)
StatusUnits == Answers("status")[1].units

(* The ids of the units of that answer whose type is the in-scope one. *)
InstructorLedIds ==
    {StatusUnits[i].id :
        i \in {j \in 1..Len(StatusUnits) :
                 StatusUnits[j].type = "Instructor-led training"}}

(* C19: after a unit-status answer, sessions are fetched only for its units *)
(* of type "Instructor-led training", for each of them once the request has *)
(* ended, and every record comes from such a unit.                          *)
C19_OnlyInstructorLed ==
    (Answers("status") # <<>> /\ Answers("status")[1].code = 200) =>
        LET fetched == {calls[i].unit :
                           i \in {j \in 1..Len(calls) : calls[j].op = "sessions"}}
        IN  /\ fetched \subseteq InstructorLedIds
            /\ Done => fetched = InstructorLedIds
            /\ \A j \in 1..Len(sessions_data) :
                  training_data[sessions_data[j].unit].id \in InstructorLedIds
            /\ \A j \in 1..Len(Records) :
                  training_data[Records[j].unit].id \in InstructorLedIds

(* The answer listed a unit of another type before an in-scope one, and the *)
(* result has a record.                                                     *)
C19_Witness ==
    /\ Success
    /\ Len(StatusUnits) = 2
    /\ StatusUnits[1].type = "Test"
    /\ InstructorLedIds = {2}
    /\ Records # <<>>

(* The sessions the upstream returned for the unit at position u of         *)
(* training_data, and the positions of the fetched sessions.                *)
Upstream(u) == Answers("sessions")[u].sessions

Fetched ==
    UNION {{<<u, i>> : i \in 1..Len(Upstream(u))} :
              u \in 1..Len(Answers("sessions"))}

(* The records made of session i of unit u. *)
RecordsOf(data, u, i) ==
    {j \in 1..Len(data) : data[j].unit = u /\ data[j].sess = i}

(* The layouts the date normalizer is specified to try, as far as the       *)
(* upstream answers of the model use them.                                  *)
ListedFormats == {FmtUpstream, FmtIso}

ValidIn(start, fmt) == start.fmt = fmt /\ ValidFields(start)

(* C16: a session start valid in one of the listed layouts gets a start     *)
(* instant, and only a start valid in none of them gets none.               *)
C16_ListedFormatsParse ==
    \A p \in Fetched :
        LET session == Upstream(p[1])[p[2]]
        IN  (\E fmt \in ListedFormats : ValidIn(session.start_date, fmt))
                <=> FormattedStart(session) # NoDate

(* The start is missing or is a date in no layout. *)
Unparseable(session) ==
    \/ session.start_date = NoDate
    \/ \A fmt \in ListedFormats : ~ValidIn(session.start_date, fmt)

(* The start is written in the upstream layout and is on the requested day. *)
OnRequestedDay(session) ==
    /\ ValidIn(session.start_date, FmtUpstream)
    /\ <<session.start_date.y, session.start_date.mo, session.start_date.d>> =
          <<req.attendanceDate.y, req.attendanceDate.mo, req.attendanceDate.d>>

(* C17: a fetched session without a start, or with a start that is no date, *)
(* has neither start nor end and makes no record; the request still ends    *)
(* with a 200 after a fetch for every unit, and every fetched session on    *)
(* the requested day, of the same or of another unit, makes its record.     *)
C17_UnparseableDropped ==
    /\ \A p \in Fetched :
          LET session == Upstream(p[1])[p[2]]
          IN  /\ Unparseable(session) =>
                    /\ FormattedStart(session) = NoDate
                    /\ EndDate(session) = NoDate
                    /\ RecordsOf(sessions_data, p[1], p[2]) = {}
                    /\ RecordsOf(Records, p[1], p[2]) = {}
              /\ OnRequestedDay(session) =>
                    Cardinality(RecordsOf(sessions_data, p[1], p[2])) = 1
    /\ (Done /\ Answers("sessions") # <<>>) =>
          /\ response.status = 200
          /\ Len(Answers("sessions")) = Len(training_data)
          /\ Records = sessions_data

(* The first unit had a session without a start and the second one whose    *)
(* start is no date; both units have a record in the result.                *)
C17_Witness ==
    /\ Success
    /\ \E p \in Fetched : p[1] = 1 /\ Upstream(1)[p[2]].start_date = NoDate
    /\ \E p \in Fetched :
          /\ p[1] = 2
          /\ Upstream(2)[p[2]].start_date # NoDate
          /\ Unparseable(Upstream(2)[p[2]])
    /\ \E i, j \in 1..Len(Records) : Records[i].unit = 1 /\ Records[j].unit = 2

(* The minutes from the start of 2024 to a date of 2024 or later. *)
RECURSIVE DaysBeforeMonth(_, _)
DaysBeforeMonth(y, mo) ==
    IF mo = 1 THEN 0 ELSE DaysInMonth(y, mo - 1) + DaysBeforeMonth(y, mo - 1)

Instant(dt) ==
    LET days == 365 * (dt.y - 2024)
                + Cardinality({z \in 2024..(dt.y - 1) : IsLeap(z)})
                + DaysBeforeMonth(dt.y, dt.mo) + dt.d - 1
    IN  days * 1440 + dt.h * 60 + dt.mi

(* The minutes an upstream duration stands for. *)
Minutes(d) == IF d.k \in {"num", "numstr"} THEN d.v ELSE 0

(* C18: a record with attendance "Passed" has as in_time the start of its   *)
(* upstream session, as duration_minutes the upstream duration (0 when that *)
(* is no number or missing), and as out_time the date and time that many    *)
(* minutes later, on the next day when the sum passes midnight.             *)
C18_PassedSchedule ==
    \A data \in {sessions_data, Records} : \A j \in 1..Len(data) :
        LET rec == data[j]
            session == Upstream(rec.unit)[rec.sess]
        IN  rec.attendance = "Passed" =>
                /\ ValidIn(session.start_date, FmtUpstream)
                /\ rec.in_time = [session.start_date EXCEPT !.fmt = FmtCanonical]
                /\ rec.duration_minutes = Minutes(session.duration_minutes)
                /\ ValidIn(rec.out_time, FmtCanonical)
                /\ rec.out_time.s = rec.in_time.s
                /\ Instant(rec.out_time) = Instant(rec.in_time) + rec.duration_minutes

(* The result has a Passed record that ends on the day after its start and  *)
(* one whose upstream duration was no number.                               *)
C18_Witness ==
    /\ Success
    /\ \E j \in 1..Len(Records) :
          /\ Records[j].attendance = "Passed"
          /\ Records[j].out_time.d = Records[j].in_time.d + 1
          /\ Records[j].out_time.h = 0
    /\ \E j \in 1..Len(Records) :
          /\ Records[j].attendance = "Passed"
          /\ Upstream(Records[j].unit)[Records[j].sess].duration_minutes = Text
          /\ Records[j].out_time = Records[j].in_time

(* The student, batch and day a request asks for. *)
Asked(r) == <<r.org_emp_code, r.batch_id, r.attendanceDate>>

(* The finished request asks what the remembered one asked and received the *)
(* same upstream answers.                                                   *)
Replayed ==
    /\ Done
    /\ Admitted
    /\ first # NoRun
    /\ Asked(req) = Asked(first.req)
    /\ trace = first.trace

(* C12: two requests the key gate lets through, for the same student, batch *)
(* and day and with the same upstream answers, end with the same response,  *)
(* status and records, whatever requests ended before or between them and   *)
(* whatever keys were issued.                                               *)
C12_Deterministic ==
    Replayed => response = first.response

(* A request with records was replayed after another request had ended in   *)
(* between.                                                                 *)
C12_Witness ==
    /\ Replayed
    /\ first.later >= 1
    /\ Len(Records) >= 2

====
